---- MODULE Spec2Model ----
(***************************************************************************)
(* The ticket ledger of nosht: the plpgsql function                        *)
(* check_tickets_remaining(event_id, ttl) of src/docker/Dockerfile.web,    *)
(* lines 88-103, run by concurrent PostgreSQL transactions.                *)
(*                                                                         *)
(* The function body is four SQL statements (DELETE, SELECT COUNT INTO,    *)
(* UPDATE, RETURN SELECT).  Nothing in the source sets an isolation level  *)
(* or takes an explicit lock, so the statements run under PostgreSQL's     *)
(* default, READ COMMITTED:                                                *)
(*   - every statement reads the rows committed when it starts, plus the   *)
(*     writes of its own transaction;                                      *)
(*   - a transaction's writes reach the others at its COMMIT, all at once, *)
(*     and are dropped by a ROLLBACK;                                      *)
(*   - a row deleted or updated by an open transaction is locked: another  *)
(*     transaction's DELETE or UPDATE of that row waits for the lock (the  *)
(*     step is not enabled until the holder commits or rolls back);        *)
(*   - now() is the start time of the transaction.                         *)
(*                                                                         *)
(* After the ledger come, each with a specification of its own over its    *)
(* own variables: the trigger update_user_ts and the function full_name of *)
(* the same file, the set-password and login iframes (src/unnamed/part_001 *)
(* and part_000), the SetPassword page (src/js/src/auth/SetPassword.js)    *)
(* and the Navbar's scroll throttle (src/unnamed/part_003).                *)
(***************************************************************************)
EXTENDS Integers, FiniteSets, Sequences, TLC

\* Bounds of the model. Time and ttl are in the same unit; with ttl in {0, 1}
\* a reservation made at 0 is at its ttl at time 0 or 1 and past it at time 1.
MaxTime == 1          \* the clock reads 0..MaxTime
MaxTickets == 2       \* ticket ids the tickets sequence hands out in a run
MaxMessages == 3      \* window messages posted to the SetPassword page in a run
MaxRequests == 2      \* XHRs an iframe sends in a run
MaxActions == 3       \* action ids the actions sequence hands out in a run

EventIds == {1, 2}                       \* rows of the events table
EventArgs == {1, 2, 3}                   \* event_id arguments; 3 references no event
Contended == {1}                         \* the event concurrent sessions call for
Ttls == {0, 1}                           \* ttl arguments, in clock units
InitIds == {-1, 0}                       \* ids of the rows made before a serial run
Txns == {"t1", "t2"}                     \* concurrent database sessions
NULL == {}                               \* SQL NULL; a non-null integer v is {v}

VARIABLES
  clock,       \* wall-clock time
  events,      \* committed events table: id -> [ticket_limit, tickets_taken]
  tickets,     \* committed tickets table: set of rows [id, event, status, created_ts]
  ticket_seq,  \* next value of the tickets id sequence
  txn          \* per session: the open transaction and its uncommitted writes

vars == <<clock, events, tickets, ticket_seq, txn>>

\* The users table and the sessions that insert Action rows.
VARIABLES
  users,       \* committed users table: id -> [active_ts, profile]
  actions,     \* committed actions table: set of rows [id, user_id]
  action_seq,  \* next value of the actions id sequence
  sess         \* per session: the open transaction and its uncommitted writes

uvars == <<clock, users, actions, action_seq, sess>>

\* A call of the function full_name.
VARIABLES
  call         \* [first_name, last_name, email, result, pc]

nvars == <<call>>

\* The set-password iframe and the login iframe.
VARIABLES
  pwform,      \* set-password.html: the inputs, the script's variables, its requests
  login        \* login.html: the inputs, the error line, its requests

pvars == <<pwform>>
lvars == <<login>>

\* The SetPassword page and the Navbar of the single-page application.
VARIABLES
  page,        \* SetPassword: location, flash message, root error, window messages
  nav          \* Navbar: scroll position, the listener's closure, the rendered state

gvars == <<page>>
bvars == <<nav>>

\* The state outside the database.
elsewhere == <<call, pwform, login, page, nav>>

\* What the ledger's steps leave alone.
beside == <<users, actions, action_seq, sess, elsewhere>>

\* What the steps on the users table leave alone.
ledger == <<events, tickets, ticket_seq, txn>>

\* The database.
database == <<clock, ledger, users, actions, action_seq, sess>>

Statuses == {"reserved", "paid", "cancelled"}

SWITCH_MENU_HEIGHT == 400
BACK_TOP_DEFAULT == 56

\* No XHR response handled yet.
NoResponse == [id |-> 0, status |-> 0, body |-> "none"]

UserIds == {1, 2}                        \* rows of the users table
UserArgs == {1, 2, 3}                    \* NEW.user_id of an Action; 3 matches no user

\* The state of a session with no open transaction on the users table.
Closed == [pc |-> "idle", now |-> 0, written |-> {}, inserted |-> {}]

\* set-password.html as loaded: empty inputs, pw1_ok = pw2_ok = false, the
\* button disabled, nothing sent.
PasswordFormLoaded ==
  [pw1 |-> "", pw2 |-> "", pw1_ok |-> FALSE, pw2_ok |-> FALSE,
   pw1_class |-> "form-control", pw2_class |-> "form-control",
   msg |-> "Passwords do not match.",
   disabled |-> TRUE, readOnly |-> FALSE,
   sent |-> 0, flights |-> {}, handled |-> NoResponse, posted |-> <<>>]

\* login.html as loaded: inputs editable, no error shown, nothing sent.
LoginFormLoaded ==
  [email |-> "", password |-> "",
   readOnly |-> FALSE, user_error |-> "", sent |-> 0, flights |-> {},
   handled |-> NoResponse, posted |-> <<>>]

\* The SetPassword component just mounted: at /set-password/, no flash
\* message, no root error, no window message posted.
SetPasswordMounted ==
  [path |-> "/set-password/", message |-> "", error |-> NULL,
   navigations |-> 0, posts |-> 0, inbox |-> <<>>]

\* The Navbar constructed on a desktop window at the top of the page.
NavbarAtTop ==
  [scrollY |-> 0, y_pos |-> 0, captured |-> 0,
   busy |-> FALSE, frames |-> 0, event |-> FALSE,
   show_extra |-> FALSE, BACK_TOP |-> BACK_TOP_DEFAULT, scrolled |-> FALSE]

\* full_name not called.
NoCall == [first_name |-> NULL, last_name |-> NULL, email |-> NULL,
           result |-> NULL, pc |-> "none"]

\* The state of a session with no open transaction.
Idle ==
  [pc |-> "idle", now |-> 0, event_id |-> 0, ttl |-> 0,
   tickets_taken_ |-> 0, deleted |-> {}, inserted |-> {}, written |-> {},
   result |-> NULL, calls |-> 0, first |-> NULL]

----------------------------------------------------------------------------
(* What a transaction sees: committed rows, minus its own deletes, plus its *)
(* own inserts; committed events overlaid with its own update.              *)

TicketsSeen(t) ==
  {r \in tickets : r.id \notin txn[t].deleted} \cup txn[t].inserted

EventsSeen(t) ==
  [e \in EventIds |->
     IF \E w \in txn[t].written : w[1] = e
       THEN [events[e] EXCEPT
               !.tickets_taken = (CHOOSE w \in txn[t].written : w[1] = e)[2]]
       ELSE events[e]]

\* Row locks held by open transactions other than t.
TicketLocked(t, id) == \E u \in Txns \ {t} : id \in txn[u].deleted
EventLocked(t, e) == \E u \in Txns \ {t} : \E w \in txn[u].written : w[1] = e

----------------------------------------------------------------------------
(* check_tickets_remaining, statement by statement.                         *)

\* Variants of the DELETE's WHERE clause: the subtraction reversed, the status
\* test dropped, the event test dropped, the event test negated.
ExpiredReversed(r, event_id, ttl, now) ==
  /\ r.status = "reserved"
  /\ r.event = event_id
  /\ r.created_ts - now > ttl

ExpiredAnyStatus(r, event_id, ttl, now) ==
  /\ r.event = event_id
  /\ now - r.created_ts > ttl

ExpiredAnyEvent(r, event_id, ttl, now) ==
  /\ r.status = "reserved"
  /\ now - r.created_ts > ttl

ExpiredOtherEvent(r, event_id, ttl, now) ==
  /\ r.status = "reserved"
  /\ r.event # event_id
  /\ now - r.created_ts > ttl

\* WHERE status='reserved' AND event=event_id
\*   AND now() - created_ts > (ttl || ' seconds')::interval
Expired(r, event_id, ttl, now) ==
  /\ r.status = "reserved"
  /\ r.event = event_id
  /\ now - r.created_ts > ttl

\* Variant of the COUNT's WHERE clause: the status test dropped.
CountedWithCancelled(r, event_id) ==
  r.event = event_id

\* WHERE event=event_id AND status != 'cancelled'
Counted(r, event_id) ==
  /\ r.event = event_id
  /\ r.status # "cancelled"

\* Variants of the UPDATE: a WHERE clause that matches no row, and none at all.
UpdatedRowsNone(event_id, tickets_taken_) ==
  {<<e, tickets_taken_>> : e \in {}}

UpdatedRowsAll(event_id, tickets_taken_) ==
  {<<e, tickets_taken_>> : e \in EventIds}

\* UPDATE events SET tickets_taken=tickets_taken_ WHERE id=event_id:
\* the <<id, tickets_taken>> pairs the statement writes.
UpdatedRows(event_id, tickets_taken_) ==
  {<<e, tickets_taken_>> : e \in {x \in EventIds : x = event_id}}

\* (SELECT ticket_limit - tickets_taken FROM events WHERE id=event_id):
\* a scalar subquery that selects no row is NULL.
Remaining(seen, event_id) ==
  IF event_id \in DOMAIN seen
    THEN {seen[event_id].ticket_limit - seen[event_id].tickets_taken}
    ELSE NULL

\* Variant of the body: the count taken before the sweep.
BodyCountFirst == <<"count", "delete", "update", "return">>

\* The order of the statements in the function body.
Body == <<"delete", "count", "update", "return">>

FirstStmt == Body[1]

NextStmt(s) ==
  LET i == CHOOSE k \in 1..Len(Body) : Body[k] = s
  IN  IF i < Len(Body) THEN Body[i + 1] ELSE "called"

----------------------------------------------------------------------------
\* The users table before any Action row is inserted: every user was created
\* at time 0, no session has a transaction open.
UsersInit ==
  /\ users = [u \in UserIds |-> [active_ts |-> 0, profile |-> u]]
  /\ actions = {}
  /\ action_seq = 1
  /\ sess = [t \in Txns |-> Closed]

\* The state outside the ledger, at rest.
BesideInit ==
  /\ UsersInit
  /\ call = NoCall
  /\ pwform = PasswordFormLoaded
  /\ login = LoginFormLoaded
  /\ page = SetPasswordMounted
  /\ nav = NavbarAtTop

\* The ticket ledger before any call: no tickets, no transaction open.
LedgerInit ==
  /\ clock = 0
  /\ events = [e \in EventIds |-> [ticket_limit |-> e, tickets_taken |-> 0]]
  /\ tickets = {}
  /\ ticket_seq = 1
  /\ txn = [t \in Txns |-> Idle]

Init ==
  /\ LedgerInit
  /\ BesideInit

Tick ==
  /\ clock < MaxTime
  /\ clock' = clock + 1
  /\ UNCHANGED <<beside, events, tickets, ticket_seq, txn>>

\* A session opens a transaction and calls check_tickets_remaining(e, ttl).
Begin(t, e, ttl) ==
  /\ txn[t].pc = "idle"
  /\ txn' = [txn EXCEPT ![t] =
       [Idle EXCEPT !.pc = FirstStmt, !.now = clock,
                    !.event_id = e, !.ttl = ttl, !.calls = 1]]
  /\ UNCHANGED <<beside, clock, events, tickets, ticket_seq>>

\* DELETE FROM tickets WHERE ...
DeleteExpired(t) ==
  LET x == txn[t]
      gone == {r \in TicketsSeen(t) : Expired(r, x.event_id, x.ttl, x.now)}
  IN  /\ x.pc = "delete"
      /\ \A r \in gone : ~TicketLocked(t, r.id)
      /\ txn' = [txn EXCEPT ![t] =
           [x EXCEPT !.pc = NextStmt("delete"),
                     !.deleted = @ \cup {r.id : r \in gone \cap tickets},
                     !.inserted = @ \ gone]]
      /\ UNCHANGED <<beside, clock, events, tickets, ticket_seq>>

\* SELECT coalesce(COUNT(*), 0) INTO tickets_taken_ FROM tickets WHERE ...
CountTaken(t) ==
  LET x == txn[t]
  IN  /\ x.pc = "count"
      /\ txn' = [txn EXCEPT ![t] =
           [x EXCEPT !.pc = NextStmt("count"),
                     !.tickets_taken_ =
                        Cardinality({r \in TicketsSeen(t) : Counted(r, x.event_id)})]]
      /\ UNCHANGED <<beside, clock, events, tickets, ticket_seq>>

\* UPDATE events SET tickets_taken=tickets_taken_ WHERE id=event_id
UpdateEvent(t) ==
  LET x == txn[t]
      rows == UpdatedRows(x.event_id, x.tickets_taken_)
  IN  /\ x.pc = "update"
      /\ \A w \in rows : ~EventLocked(t, w[1])
      /\ txn' = [txn EXCEPT ![t] =
           [x EXCEPT !.pc = NextStmt("update"),
                     !.written = {v \in @ : \A w \in rows : w[1] # v[1]} \cup rows]]
      /\ UNCHANGED <<beside, clock, events, tickets, ticket_seq>>

\* return (SELECT ticket_limit - tickets_taken FROM events WHERE id=event_id)
Return(t) ==
  LET x == txn[t]
  IN  /\ x.pc = "return"
      /\ txn' = [txn EXCEPT ![t] =
           [x EXCEPT !.pc = NextStmt("return"),
                     !.result = Remaining(EventsSeen(t), x.event_id)]]
      /\ UNCHANGED <<beside, clock, events, tickets, ticket_seq>>

\* The purchase flow's test of the returned capacity: NULL > 0 is not true.
HasCapacity(result) == \E v \in result : v > 0

\* The purchase flow: a transaction whose call returned capacity > 0 may go on
\* to reserve a ticket, in the same transaction: INSERT INTO tickets (event, status, created_ts)
\*              VALUES (event_id, 'reserved', now()).
InsertTicket(t) ==
  LET x == txn[t]
  IN  /\ x.pc = "called"
      /\ HasCapacity(x.result)
      /\ ticket_seq <= MaxTickets
      /\ txn' = [txn EXCEPT ![t] =
           [x EXCEPT !.pc = "done",
                     !.inserted = @ \cup {[id |-> ticket_seq, event |-> x.event_id,
                                           status |-> "reserved", created_ts |-> x.now]}]]
      /\ ticket_seq' = ticket_seq + 1
      /\ UNCHANGED <<beside, clock, events, tickets>>

\* COMMIT, after the call returned (a lone call, or a purchase that found no
\* capacity or was given up) or after the ticket is inserted: the transaction's writes become the committed state, all at once.
Commit(t) ==
  /\ txn[t].pc \in {"called", "done"}
  /\ tickets' = TicketsSeen(t)
  /\ events' = EventsSeen(t)
  /\ txn' = [txn EXCEPT ![t] = Idle]
  /\ UNCHANGED <<beside, clock, ticket_seq>>

\* ROLLBACK (error, lost connection, cancelled statement): the writes are dropped.
Abort(t) ==
  /\ txn[t].pc # "idle"
  /\ txn' = [txn EXCEPT ![t] = Idle]
  /\ UNCHANGED <<beside, clock, events, tickets, ticket_seq>>

\* UPDATE tickets SET status=s WHERE id=r.id, in a transaction of its own.
SetStatus(r, s) ==
  /\ r \in tickets
  /\ \A t \in Txns : r.id \notin txn[t].deleted
  /\ tickets' = (tickets \ {r}) \cup {[r EXCEPT !.status = s]}
  /\ UNCHANGED <<beside, clock, events, ticket_seq, txn>>

\* Payment completion: reserved -> paid.
Pay(r) == r.status = "reserved" /\ SetStatus(r, "paid")

\* Explicit cancellation: reserved or paid -> cancelled.
Cancel(r) == r.status # "cancelled" /\ SetStatus(r, "cancelled")

\* A second call with the same arguments in the same transaction, right after
\* the first returned (now() is the same for both).
CallAgain(t) ==
  LET x == txn[t]
  IN  /\ x.pc = "called"
      /\ x.calls = 1
      /\ txn' = [txn EXCEPT ![t] =
           [x EXCEPT !.pc = FirstStmt, !.calls = 2,
                     !.first = {[result |-> x.result, deleted |-> x.deleted,
                                 written |-> x.written]}]]
      /\ UNCHANGED <<beside, clock, events, tickets, ticket_seq>>

Next ==
  \/ Tick
  \/ \E t \in Txns, e \in Contended, ttl \in Ttls : Begin(t, e, ttl)
  \/ \E t \in Txns : DeleteExpired(t)
  \/ \E t \in Txns : CountTaken(t)
  \/ \E t \in Txns : UpdateEvent(t)
  \/ \E t \in Txns : Return(t)
  \/ \E t \in Txns : InsertTicket(t)
  \/ \E t \in Txns : Commit(t)
  \/ \E t \in Txns : Abort(t)
  \/ \E r \in tickets : Pay(r)
  \/ \E r \in tickets : Cancel(r)

\* Concurrent sessions calling for the same event, from an empty ledger.
Spec == Init /\ [][Next]_vars

----------------------------------------------------------------------------
(* Calls that run alone: one session, no other activity while its           *)
(* transaction is open, for any event_id, from any ledger over the rows     *)
(* InitIds (made before the run, with ids below the sequence's next value). *)

Alone == "t1"

NoRow == [event |-> 0, status |-> "none"]

InitRows == {NoRow} \cup [event : EventIds, status : Statuses]

InitSerial ==
  /\ clock = 0
  /\ events = [e \in EventIds |-> [ticket_limit |-> e, tickets_taken |-> 0]]
  /\ \E f \in [InitIds -> InitRows] :
       tickets = {[id |-> i, event |-> f[i].event, status |-> f[i].status,
                   created_ts |-> 0] : i \in {j \in InitIds : f[j] # NoRow}}
  /\ ticket_seq = 1
  /\ txn = [t \in Txns |-> Idle]
  /\ BesideInit

Quiet == \A t \in Txns : txn[t].pc = "idle"

NextSerial ==
  \/ Quiet /\ Tick
  \/ \E e \in EventArgs, ttl \in Ttls : Begin(Alone, e, ttl)
  \/ DeleteExpired(Alone)
  \/ CountTaken(Alone)
  \/ UpdateEvent(Alone)
  \/ Return(Alone)
  \/ CallAgain(Alone)
  \/ InsertTicket(Alone)
  \/ Commit(Alone)
  \/ Abort(Alone)

SpecSerial == InitSerial /\ [][NextSerial]_vars

----------------------------------------------------------------------------
(* Vocabulary of the properties.                                            *)

Ids(rows) == {r.id : r \in rows}

\* The non-cancelled (reserved + paid) rows of event e among rows.
Live(rows, e) == {r \in rows : r.event = e /\ r.status \in {"reserved", "paid"}}

\* tickets_taken of the called event, as session t sees it.
TakenSeen(t) == EventsSeen(t)[txn[t].event_id].tickets_taken

Existing(t) == txn[t].event_id \in EventIds

\* Session t's call has returned and nothing of the purchase flow followed yet.
Called(t) == txn[t].pc = "called"

----------------------------------------------------------------------------
(* C1: immediately after every call completes, tickets_taken of its event,  *)
(* as the caller sees it, equals the number of non-cancelled ticket rows of *)
(* that event at that moment, concurrent sessions included.                 *)
C1_TakenEqualsLedger ==
  [][\A t \in Txns :
       (Return(t) /\ Existing(t)) =>
          (TakenSeen(t) = Cardinality(Live(TicketsSeen(t), txn[t].event_id)))']_vars

(* C2: non-oversell. From an empty ledger, with tickets created only by     *)
(* purchase flows that call check_tickets_remaining and insert in the same  *)
(* transaction only when the result is > 0, no event ever holds more than   *)
(* ticket_limit reserved or paid tickets.                                   *)
C2_NonOversell ==
  \A e \in EventIds : Cardinality(Live(tickets, e)) <= events[e].ticket_limit

(* C3: linearizable calls. At the commit of a call (its place in the total  *)
(* order), the tickets_taken it persists and the value it returned equal    *)
(* the count of the ledger that results, which holds every insertion and    *)
(* deletion committed before it: no count from a stale snapshot is written  *)
(* or returned.                                                             *)
C3_Linearizable ==
  [][\A t \in Txns :
       (Commit(t) /\ Called(t)) =>
          LET e == txn[t].event_id
              n == Cardinality(Live(tickets', e))
          IN  /\ events'[e].tickets_taken = n
              /\ txn[t].result = {events[e].ticket_limit - n}]_vars

----------------------------------------------------------------------------
(* Calls that run alone (SpecSerial): the committed table `tickets` is the  *)
(* ledger the call started from until the call's transaction commits.       *)

\* The reserved rows of the called event created at least / more than ttl ago.
AgedAtLeastTtl(t) ==
  {r \in tickets : /\ r.event = txn[t].event_id
                   /\ r.status = "reserved"
                   /\ txn[t].now >= r.created_ts + txn[t].ttl}

AgedPastTtl(t) ==
  {r \in tickets : /\ r.event = txn[t].event_id
                   /\ r.status = "reserved"
                   /\ txn[t].now > r.created_ts + txn[t].ttl}

(* C4, as claimed: once a call made at a time >= T + ttl has returned, every *)
(* reserved ticket of its event created at T is deleted.                     *)
C4_DeletedFromTtl ==
  \A t \in Txns :
     (Called(t) /\ Existing(t)) => Ids(AgedAtLeastTtl(t)) \subseteq txn[t].deleted

(* C4, amended: once a call made at a time > T + ttl has returned, every     *)
(* reserved ticket of its event created at T is deleted (its row is gone     *)
(* from the table the caller sees, under any status) and tickets_taken, the  *)
(* count of the rows that are left, does not count it.                       *)
C4_DeletedPastTtl ==
  \A t \in Txns :
     (Called(t) /\ Existing(t)) =>
        /\ Ids(AgedPastTtl(t)) \subseteq txn[t].deleted
        /\ Ids(AgedPastTtl(t)) \cap Ids(TicketsSeen(t)) = {}
        /\ TakenSeen(t) = Cardinality(Live(TicketsSeen(t), txn[t].event_id))

\* A call has returned after sweeping a reservation older than its ttl.
C4_Witness ==
  \E t \in Txns : Called(t) /\ Existing(t) /\ AgedPastTtl(t) # {}

(* C5: the sweep deletes only reserved tickets of the called event whose age *)
(* exceeds ttl. The DELETE step removes no other row from what the caller    *)
(* sees and changes none; no step of a call (its statements, its commit)     *)
(* removes or changes a committed paid or cancelled row, and a committed     *)
(* row that disappears was reserved, of the committing call's event, and     *)
(* older than that call's ttl.                                               *)
C5_SweepOnlyExpired ==
  [][\A t \in Txns :
       /\ DeleteExpired(t) =>
            /\ TicketsSeen(t)' \subseteq TicketsSeen(t)
            /\ \A r \in TicketsSeen(t) \ TicketsSeen(t)' :
                  /\ r.status = "reserved"
                  /\ r.event = txn[t].event_id
                  /\ txn[t].now - r.created_ts > txn[t].ttl
       /\ (DeleteExpired(t) \/ Commit(t)) =>
            /\ \A r \in tickets :
                  r.status \in {"paid", "cancelled"} =>
                     r \in tickets' /\ r.id \notin txn'[t].deleted
            /\ \A r \in tickets :
                  r.id \notin Ids(tickets') =>
                     /\ r.status = "reserved"
                     /\ r.event = txn[t].event_id
                     /\ txn[t].now - r.created_ts > txn[t].ttl]_vars

\* A sweep has deleted an expired reservation and kept a paid ticket and a
\* reservation of the same event that is not older than ttl.
C5_Witness ==
  \E t \in Txns :
     /\ txn[t].pc = "count"
     /\ txn[t].deleted # {}
     /\ \E r \in TicketsSeen(t) :
           /\ r.event = txn[t].event_id
           /\ \/ r.status = "paid"
              \/ r.status = "reserved" /\ txn[t].now - r.created_ts <= txn[t].ttl

\* The rows of the called event that are paid, or reserved and not expired
\* under the call's ttl, in the ledger the call started from.
PaidOrHeld(t) ==
  {r \in tickets : /\ r.event = txn[t].event_id
                   /\ \/ r.status = "paid"
                      \/ /\ r.status = "reserved"
                         /\ ~(txn[t].now - r.created_ts > txn[t].ttl)}

(* C6: for an existing event the call returns ticket_limit minus the number  *)
(* of tickets of the event that are paid, or reserved and not expired under  *)
(* ttl, when it is called; tickets_taken becomes that number; the result is  *)
(* not clamped at 0.                                                         *)
C6_ReturnsRemaining ==
  \A t \in Txns :
     (Called(t) /\ Existing(t)) =>
        LET e == txn[t].event_id
            n == Cardinality(PaidOrHeld(t))
        IN  /\ txn[t].result = {events[e].ticket_limit - n}
            /\ TakenSeen(t) = n

\* The spec's example, scaled down: paid tickets and an expired reservation;
\* the reservation is deleted, tickets_taken is the number of paid tickets.
C6_Witness ==
  \E t \in Txns :
     /\ Called(t) /\ Existing(t)
     /\ txn[t].deleted # {}
     /\ \E r \in tickets : r.event = txn[t].event_id /\ r.status = "paid"
     /\ \E r \in tickets : r.event = txn[t].event_id /\ r.status = "cancelled"
     /\ \E v \in txn[t].result : v > 0

\* A call has returned a negative capacity.
C6_Negative ==
  \E t \in Txns : Called(t) /\ \E v \in txn[t].result : v < 0

(* C7: idempotence. A second call for the same event with the same ttl,      *)
(* made right after the first returned (same transaction, nothing created,   *)
(* paid or cancelled in between), returns what the first returned and        *)
(* leaves the ticket rows and tickets_taken as the first left them.          *)
C7_Idempotent ==
  \A t \in Txns :
     (Called(t) /\ txn[t].calls = 2) =>
        \A f \in txn[t].first :
           /\ txn[t].result = f.result
           /\ txn[t].deleted = f.deleted
           /\ txn[t].written = f.written

\* The second of two calls has returned, the first having swept a reservation.
C7_Witness ==
  \E t \in Txns :
     /\ Called(t) /\ txn[t].calls = 2 /\ Existing(t)
     /\ \E f \in txn[t].first : f.deleted # {}

----------------------------------------------------------------------------
(* Concurrent sessions (Spec): what the other transactions see is the       *)
(* committed tables, `tickets` and `events`.                                *)

(* C9: a call is all-or-nothing. No statement of a running call and no      *)
(* rollback changes what the other transactions see; and whenever a swept   *)
(* ticket disappears from what they see, that happens in the commit of the  *)
(* call that swept it and the same step persists the count that call        *)
(* recomputed: the sweep is never visible without its recomputed count.     *)
C9_AllOrNothing ==
  [][/\ \A t \in Txns :
          (DeleteExpired(t) \/ CountTaken(t) \/ UpdateEvent(t) \/ Return(t) \/ Abort(t)) =>
             /\ tickets' = tickets
             /\ events' = events
             /\ \A u \in Txns \ {t} :
                   TicketsSeen(u)' = TicketsSeen(u) /\ EventsSeen(u)' = EventsSeen(u)
     /\ \A r \in tickets :
          r.id \notin Ids(tickets') =>
             \E t \in Txns :
                /\ Commit(t)
                /\ r.id \in txn[t].deleted
                /\ events'[txn[t].event_id].tickets_taken = txn[t].tickets_taken_]_vars

\* A call has swept a ticket and recomputed a count that differs from the
\* committed tickets_taken; the others still see the ticket and the old count.
C9_Witness ==
  \E t \in Txns :
     /\ Called(t)
     /\ txn[t].deleted # {}
     /\ events[txn[t].event_id].tickets_taken # txn[t].tickets_taken_
     /\ \E u \in Txns \ {t} : txn[u].pc # "idle"

(* C10: tickets_taken of an event changes only by a call for that event     *)
(* (its UPDATE, made visible by its commit), and a ticket row disappears    *)
(* only by the sweep of a call (its DELETE, made visible by its commit);    *)
(* ticket creation, payment and cancellation leave every tickets_taken      *)
(* unchanged and delete no row.                                             *)
C10_Frame ==
  [][/\ \A e \in EventIds :
          events'[e].tickets_taken # events[e].tickets_taken =>
             \E t \in Txns :
                Commit(t) /\ txn[t].event_id = e /\ txn[t].written # {}
     /\ \A t \in Txns :
          /\ txn'[t].written \ txn[t].written # {} =>
               UpdateEvent(t) /\ \A w \in txn'[t].written : w[1] = txn[t].event_id
          /\ txn'[t].deleted \ txn[t].deleted # {} => DeleteExpired(t)
     /\ \A r \in tickets :
          r.id \notin Ids(tickets') =>
             \E t \in Txns : Commit(t) /\ r.id \in txn[t].deleted
     /\ ((\E t \in Txns : InsertTicket(t)) \/ (\E r \in tickets : Pay(r) \/ Cancel(r))) =>
          /\ events' = events
          /\ Ids(tickets) \subseteq Ids(tickets')
          /\ \A t \in Txns :
                /\ txn'[t].written = txn[t].written
                /\ txn'[t].deleted = txn[t].deleted
                /\ Ids(TicketsSeen(t)) \subseteq Ids(TicketsSeen(t)')]_vars

\* Tickets were created, paid and cancelled, a sweep deleted one, and
\* tickets_taken of the called event has changed.
C10_Witness ==
  /\ ticket_seq > MaxTickets
  /\ Cardinality(tickets) < MaxTickets
  /\ \E r \in tickets : r.status # "reserved"
  /\ \E e \in EventIds : events[e].tickets_taken # 0

----------------------------------------------------------------------------
(* The trigger update_user_ts (src/docker/Dockerfile.web, lines 75-83):     *)
(* AFTER INSERT ON actions FOR EACH ROW, it runs                            *)
(*   UPDATE users SET active_ts=now() WHERE id=NEW.user_id                  *)
(* inside the inserting statement. Sessions insert Action rows in           *)
(* READ COMMITTED transactions; now() is the transaction's start time.      *)

\* The users table as session t sees it: committed rows overlaid with its own
\* uncommitted updates.
UsersSeen(t) ==
  [u \in UserIds |->
     IF \E w \in sess[t].written : w[1] = u
       THEN [users[u] EXCEPT
               !.active_ts = (CHOOSE w \in sess[t].written : w[1] = u)[2]]
       ELSE users[u]]

\* Row locks on users held by open transactions other than t.
UserLocked(t, u) == \E o \in Txns \ {t} : \E w \in sess[o].written : w[1] = u

\* Variant of the trigger's UPDATE: no WHERE clause.
update_user_ts_all(user_id, now) ==
  {<<u, now>> : u \in UserIds}

\* UPDATE users SET active_ts=now() WHERE id=NEW.user_id:
\* the <<id, active_ts>> pairs the statement writes.
update_user_ts(user_id, now) ==
  {<<u, now>> : u \in {x \in UserIds : x = user_id}}

\* BEGIN: now() is fixed for the transaction.
OpenSession(t) ==
  /\ sess[t].pc = "idle"
  /\ sess' = [sess EXCEPT ![t] = [Closed EXCEPT !.pc = "open", !.now = clock]]
  /\ UNCHANGED <<ledger, elsewhere, clock, users, actions, action_seq>>

\* INSERT INTO actions (user_id, ...) VALUES (u, ...), and the trigger it fires.
InsertAction(t, u) ==
  LET x == sess[t]
      rows == update_user_ts(u, x.now)
  IN  /\ x.pc = "open"
      /\ action_seq <= MaxActions
      /\ \A w \in rows : ~UserLocked(t, w[1])
      /\ sess' = [sess EXCEPT ![t] =
           [x EXCEPT !.written = {v \in @ : \A w \in rows : w[1] # v[1]} \cup rows,
                     !.inserted = @ \cup {[id |-> action_seq, user_id |-> u]}]]
      /\ action_seq' = action_seq + 1
      /\ UNCHANGED <<ledger, elsewhere, clock, users, actions>>

\* COMMIT: the session's writes become the committed state, all at once.
CommitSession(t) ==
  /\ sess[t].pc = "open"
  /\ users' = UsersSeen(t)
  /\ actions' = actions \cup sess[t].inserted
  /\ sess' = [sess EXCEPT ![t] = Closed]
  /\ UNCHANGED <<ledger, elsewhere, clock, action_seq>>

\* ROLLBACK: the session's writes are dropped.
RollbackSession(t) ==
  /\ sess[t].pc = "open"
  /\ sess' = [sess EXCEPT ![t] = Closed]
  /\ UNCHANGED <<ledger, elsewhere, clock, users, actions, action_seq>>

NextUsers ==
  \/ Tick
  \/ \E t \in Txns : OpenSession(t)
  \/ \E t \in Txns, u \in UserArgs : InsertAction(t, u)
  \/ \E t \in Txns : CommitSession(t)
  \/ \E t \in Txns : RollbackSession(t)

\* Concurrent sessions inserting Action rows.
SpecUsers == Init /\ [][NextUsers]_uvars

(* C11: for every user, over any sequence of Action insertions by           *)
(* concurrent transactions, the committed active_ts never decreases.        *)
C11_ActiveTsMonotonic ==
  [][\A u \in UserIds : users'[u].active_ts >= users[u].active_ts]_uvars

(* C12, as claimed: inserting an Action with user_id = U sets U.active_ts,  *)
(* as the inserting session sees it, to the current time of the insertion.  *)
C12_SetsCurrentTime ==
  [][\A t \in Txns, u \in UserIds :
       InsertAction(t, u) => UsersSeen(t)'[u].active_ts = clock]_uvars

(* C12, amended: inserting an Action with user_id = U sets U.active_ts, as  *)
(* the inserting session sees it, to now() of the inserting transaction,    *)
(* the time the transaction started, which is never after the current time  *)
(* of the insertion; the active_ts of every other user and every other      *)
(* field of U are as before; an insertion whose user_id matches no user     *)
(* changes no user row; and no insertion changes what other sessions see    *)
(* before its commit.                                                       *)
C12_SetsTransactionTime ==
  [][\A t \in Txns, u \in UserArgs :
       InsertAction(t, u) =>
          /\ \A v \in UserIds :
                /\ v = u => /\ UsersSeen(t)'[v].active_ts = sess[t].now
                            /\ sess[t].now <= clock
                /\ v # u => UsersSeen(t)'[v].active_ts = UsersSeen(t)[v].active_ts
                /\ UsersSeen(t)'[v].profile = UsersSeen(t)[v].profile
          /\ u \notin UserIds => UsersSeen(t)' = UsersSeen(t)
          /\ users' = users
          /\ \A o \in Txns \ {t} : UsersSeen(o)' = UsersSeen(o)]_uvars

\* A session that began before the clock moved has inserted an Action that
\* matches no user and one for a user whose committed active_ts is later: the
\* active_ts it sees is its own start time, behind the clock.
C12_Witness ==
  \E t \in Txns :
     /\ sess[t].pc = "open"
     /\ sess[t].now < clock
     /\ \E a \in sess[t].inserted : a.user_id \notin UserIds
     /\ \E a \in sess[t].inserted :
           /\ a.user_id \in UserIds
           /\ users[a.user_id].active_ts > sess[t].now
           /\ UsersSeen(t)[a.user_id].active_ts = sess[t].now

----------------------------------------------------------------------------
(* The function full_name (src/docker/Dockerfile.web, lines 106-112):       *)
(*   return coalesce(first_name || ' ' || last_name, first_name, last_name, *)
(*                   email)                                                 *)
(* A VARCHAR value is NULL ({}) or a one-element set holding the string.    *)
(* The length modifiers (255) of the parameter and return types are         *)
(* discarded by CREATE FUNCTION, so nothing is truncated.                   *)

Names == {"", "Jo", "Al", "Smith"}       \* first and last names; '' is not NULL
Emails == {"", "a@b.com"}

Varchars(S) == {NULL} \cup {{s} : s \in S}

\* a || b: NULL when either operand is NULL.
concat(a, b) == {x \o y : x \in a, y \in b}

\* coalesce(args): the first argument that is not NULL, NULL when there is none.
RECURSIVE coalesce(_)
coalesce(args) ==
  IF args = <<>> THEN NULL
  ELSE IF Head(args) # NULL THEN Head(args)
  ELSE coalesce(Tail(args))

\* Variant of full_name: the email preferred to a lone first or last name.
full_name_email_first(first_name, last_name, email) ==
  coalesce(<<concat(concat(first_name, {" "}), last_name),
             email, first_name, last_name>>)

full_name(first_name, last_name, email) ==
  coalesce(<<concat(concat(first_name, {" "}), last_name),
             first_name, last_name, email>>)

\* Any arguments, not yet evaluated.
InitName ==
  /\ LedgerInit
  /\ UsersInit
  /\ pwform = PasswordFormLoaded
  /\ login = LoginFormLoaded
  /\ page = SetPasswordMounted
  /\ nav = NavbarAtTop
  /\ \E f \in Varchars(Names), l \in Varchars(Names), e \in Varchars(Emails) :
       call = [first_name |-> f, last_name |-> l, email |-> e,
               result |-> NULL, pc |-> "called"]

Evaluate ==
  /\ call.pc = "called"
  /\ call' = [call EXCEPT
       !.result = full_name(call.first_name, call.last_name, call.email),
       !.pc = "returned"]
  /\ UNCHANGED <<database, pwform, login, page, nav>>

NextName == Evaluate

SpecName == InitName /\ [][NextName]_nvars

\* The derivation of the display name, case by case.
DisplayName(first, last, email) ==
  IF first # NULL /\ last # NULL
    THEN {(CHOOSE x \in first : TRUE) \o " " \o (CHOOSE y \in last : TRUE)}
  ELSE IF first # NULL THEN first
  ELSE IF last # NULL THEN last
  ELSE email

(* C13: full_name(first, last, email) is first + ' ' + last when both are   *)
(* present, otherwise first when only first is present, otherwise last when *)
(* only last is present, otherwise email, for every combination of present  *)
(* and absent (NULL) arguments.                                             *)
C13_FullName ==
  call.pc = "returned" =>
     call.result = DisplayName(call.first_name, call.last_name, call.email)

\* The spec's second example has been evaluated: (NULL, 'Smith', 'a@b.com').
C13_Witness ==
  /\ call.pc = "returned"
  /\ call.first_name = NULL /\ call.last_name = {"Smith"} /\ call.email = {"a@b.com"}
  /\ call.result = {"Smith"}

\* The other two examples of the spec have been evaluated.
C13_Examples ==
  \/ /\ call.pc = "returned"
     /\ call.first_name = {"Jo"} /\ call.last_name = {"Smith"}
     /\ call.result = {"Jo Smith"}
  \/ /\ call.pc = "returned"
     /\ call.first_name = NULL /\ call.last_name = NULL
     /\ call.result = {"a@b.com"}

----------------------------------------------------------------------------
\* The rows of events other than e among rows.
OtherTickets(rows, e) == {r \in rows : r.event # e}

(* C14: a call check_tickets_remaining(E, ttl), statement by statement and  *)
(* at its commit, leaves unchanged every ticket row of an event other than  *)
(* E, the tickets_taken of every event other than E and the ticket_limit of *)
(* every event, E included, in what the caller sees and in what is          *)
(* committed.                                                               *)
C14_OtherEventsUntouched ==
  [][\A t \in Txns :
       (DeleteExpired(t) \/ CountTaken(t) \/ UpdateEvent(t) \/ Return(t) \/ Commit(t)) =>
          LET E == txn[t].event_id
          IN  /\ OtherTickets(TicketsSeen(t)', E) = OtherTickets(TicketsSeen(t), E)
              /\ OtherTickets(tickets', E) = OtherTickets(tickets, E)
              /\ \A e \in EventIds :
                    /\ e # E =>
                         /\ EventsSeen(t)'[e].tickets_taken = EventsSeen(t)[e].tickets_taken
                         /\ events'[e].tickets_taken = events[e].tickets_taken
                    /\ EventsSeen(t)'[e].ticket_limit = EventsSeen(t)[e].ticket_limit
                    /\ events'[e].ticket_limit = events[e].ticket_limit]_vars

\* A call for an existing event has swept a reservation of that event and
\* written a new tickets_taken, over a ledger in which another event holds a
\* reservation older than the call's ttl, which the caller still sees.
C14_Witness ==
  \E t \in Txns :
     /\ Called(t) /\ Existing(t)
     /\ txn[t].deleted # {}
     /\ TakenSeen(t) # events[txn[t].event_id].tickets_taken
     /\ \E r \in TicketsSeen(t) :
           /\ r.event # txn[t].event_id
           /\ r.status = "reserved"
           /\ txn[t].now - r.created_ts > txn[t].ttl

----------------------------------------------------------------------------
(* The set-password iframe (src/unnamed/part_001): two password inputs,     *)
(* their input listeners, enabled_button, on_submit and the XHR handlers.   *)
(* Each listener runs to completion (one JavaScript thread).                *)

\* Values typed into the inputs, with the score zxcvbn gives each.
Passwords == {"", "abc12", "password", "tr0ub4dour", "horsestaple"}

zxcvbn(value) ==
  [score |-> CASE value = "tr0ub4dour" -> 3
               [] value = "horsestaple" -> 4
               [] OTHER -> 0]

HttpStatuses == {200, 470, 500}
Bodies == {"json", "garbage"}            \* responseText that parses, or does not

\* JSON.parse(xhr.responseText) throws.
ParseFails(body) == body # "json"

\* window.parent.postMessage of on_error(user_msg, ...).
on_error(user_msg) == [kind |-> "client_error", user_msg |-> user_msg]

\* window.parent.postMessage(JSON.stringify(data), origin): data is undefined
\* when JSON.parse threw, and JSON.stringify(undefined) is undefined.
PostData(body) ==
  [kind |-> IF ParseFails(body) THEN "undefined" ELSE "response", user_msg |-> ""]

\* enabled_button: the value it gives btn.disabled.
enabled_button(pw1_ok, pw2_ok) == ~pw1_ok \/ ~pw2_ok

\* pw1.addEventListener('input', ...): the user has made pw1.value = v.
InputPassword1(v) ==
  LET ok == Len(v) > 5 /\ zxcvbn(v).score >= 2
  IN  /\ ~pwform.readOnly
      /\ pwform' = [pwform EXCEPT
           !.pw1 = v,
           !.pw1_ok = ok,
           !.pw1_class = IF ok THEN "form-control is-valid" ELSE "form-control is-invalid",
           !.msg = IF ok THEN @
                   ELSE IF Len(v) > 5 THEN "Password not strong enough."
                   ELSE "Password too short.",
           !.disabled = enabled_button(ok, pwform.pw2_ok)]
      /\ UNCHANGED <<database, call, login, page, nav>>

\* pw2.addEventListener('input', ...): the user has made pw2.value = v.
InputPassword2(v) ==
  LET ok == pwform.pw1 = v
  IN  /\ ~pwform.readOnly
      /\ pwform' = [pwform EXCEPT
           !.pw2 = v,
           !.pw2_ok = ok,
           !.pw2_class = IF ok THEN "form-control is-valid" ELSE "form-control is-invalid",
           !.disabled = enabled_button(pwform.pw1_ok, ok)]
      /\ UNCHANGED <<database, call, login, page, nav>>

\* on_submit: the submit event needs the button enabled and both inputs,
\* which are `required`, filled in.
SubmitPassword ==
  /\ ~pwform.disabled
  /\ pwform.pw1 # "" /\ pwform.pw2 # ""
  /\ pwform.sent < MaxRequests
  /\ pwform' = [pwform EXCEPT
       !.readOnly = TRUE,
       !.sent = @ + 1,
       !.flights = @ \cup {pwform.sent + 1}]
  /\ UNCHANGED <<database, call, login, page, nav>>

\* xhr.onload of the set-password form: what it posts to the parent window.
password_onload(status, body) ==
  (IF ParseFails(body) THEN <<on_error("Error decoding response")>> ELSE <<>>)
  \o (IF status = 200 THEN <<PostData(body)>>
      ELSE <<on_error("Unexpected response")>>)

PasswordLoad(id, status, body) ==
  /\ id \in pwform.flights
  /\ pwform' = [pwform EXCEPT
       !.flights = @ \ {id},
       !.handled = [id |-> id, status |-> status, body |-> body],
       !.posted = password_onload(status, body)]
  /\ UNCHANGED <<database, call, login, page, nav>>

\* xhr.onerror of the set-password form.
PasswordNetworkError(id) ==
  /\ id \in pwform.flights
  /\ pwform' = [pwform EXCEPT
       !.flights = @ \ {id},
       !.handled = [id |-> id, status |-> 0, body |-> "none"],
       !.posted = <<on_error("Network Error")>>]
  /\ UNCHANGED <<database, call, login, page, nav>>

NextPassword ==
  \/ \E v \in Passwords : InputPassword1(v)
  \/ \E v \in Passwords : InputPassword2(v)
  \/ SubmitPassword
  \/ \E id \in 1..MaxRequests, status \in HttpStatuses, body \in Bodies :
        PasswordLoad(id, status, body)
  \/ \E id \in 1..MaxRequests : PasswordNetworkError(id)

SpecPassword == Init /\ [][NextPassword]_pvars

\* The current password1 is acceptable: length > 5 and strength score >= 2.
Acceptable(value) == Len(value) > 5 /\ zxcvbn(value).score >= 2

(* C15: after any sequence of input events on password1 and password2, the  *)
(* submit button is enabled only if the current value of password2 equals   *)
(* the current value of password1 and the current password1 is acceptable.  *)
C15_EnabledOnlyIfMatching ==
  ~pwform.disabled => (pwform.pw2 = pwform.pw1 /\ Acceptable(pwform.pw1))

\* Two different passwords have been submitted.
C15_MismatchSent ==
  pwform.flights # {} /\ pwform.pw1 # pwform.pw2

----------------------------------------------------------------------------
(* The login iframe (src/unnamed/part_000): on_submit and the handlers of   *)
(* the XHR it sends. The submit button is never disabled, so the form can   *)
(* be submitted again while a request is in flight; responses arrive in any *)
(* order.                                                                   *)

Credentials == {"", "a@b.com", "abc12"}    \* values of the email and password inputs

\* The user edits the email or the password input: not while it is read-only.
InputEmail(v) ==
  /\ ~login.readOnly
  /\ login' = [login EXCEPT !.email = v]
  /\ UNCHANGED <<database, call, pwform, page, nav>>

InputLoginPassword(v) ==
  /\ ~login.readOnly
  /\ login' = [login EXCEPT !.password = v]
  /\ UNCHANGED <<database, call, pwform, page, nav>>

\* The browser's validation of input type="email".
ValidEmail(v) == v = "a@b.com"

\* on_submit (lines 55-88), up to xhr.send(data); the submit event needs a
\* valid email and a password (both inputs are `required`).
SubmitLogin ==
  /\ ValidEmail(login.email) /\ login.password # ""
  /\ login.sent < MaxRequests
  /\ login' = [login EXCEPT
       !.readOnly = TRUE,
       !.user_error = "",
       !.sent = @ + 1,
       !.flights = @ \cup {login.sent + 1}]
  /\ UNCHANGED <<database, call, pwform, page, nav>>

\* xhr.onload of the login form: what it posts to the parent window.
login_onload(status, body) ==
  (IF ParseFails(body) THEN <<on_error("Error decoding response")>> ELSE <<>>)
  \o (IF status = 470 THEN <<>>
      ELSE IF status = 200 THEN <<PostData(body)>>
      ELSE <<on_error("Unexpected response")>>)

LoginLoad(id, status, body) ==
  /\ id \in login.flights
  /\ login' = [login EXCEPT
       !.flights = @ \ {id},
       !.handled = [id |-> id, status |-> status, body |-> body],
       !.posted = login_onload(status, body),
       !.user_error = IF status = 470 THEN "Email address or password incorrect."
                      ELSE @,
       !.readOnly = IF status = 470 THEN FALSE ELSE @]
  /\ UNCHANGED <<database, call, pwform, page, nav>>

\* xhr.onerror of the login form.
LoginNetworkError(id) ==
  /\ id \in login.flights
  /\ login' = [login EXCEPT
       !.flights = @ \ {id},
       !.handled = [id |-> id, status |-> 0, body |-> "none"],
       !.posted = <<on_error("Network Error")>>]
  /\ UNCHANGED <<database, call, pwform, page, nav>>

NextLogin ==
  \/ \E v \in Credentials : InputEmail(v)
  \/ \E v \in Credentials : InputLoginPassword(v)
  \/ SubmitLogin
  \/ \E id \in 1..MaxRequests, status \in HttpStatuses, body \in Bodies :
        LoginLoad(id, status, body)
  \/ \E id \in 1..MaxRequests : LoginNetworkError(id)

SpecLogin == Init /\ [][NextLogin]_lvars

\* What handling a response posted and showed: form.handled is the response,
\* form.posted the messages its handler posted to the parent window.
OneMessage(form) ==
  /\ Len(form.posted) <= 1
  /\ \A i \in 1..Len(form.posted) :
        \/ form.posted[i].kind = "client_error"
        \/ /\ form.posted[i].kind = "response"
           /\ form.handled.status = 200
           /\ ~ParseFails(form.handled.body)

(* C16: for each completed XHR response the login iframe posts at most one  *)
(* message to the parent window, the server's parsed response (only when    *)
(* the status is 200 and the body parsed) or a client_error report; and a   *)
(* response whose body fails to parse gives its client_error message and    *)
(* nothing else: no second message, no error line shown to the user.        *)
C16_OneMessagePerResponse ==
  login.handled # NoResponse =>
     /\ OneMessage(login)
     /\ (login.handled.status # 0 /\ ParseFails(login.handled.body)) =>
           /\ login.posted = <<on_error("Error decoding response")>>
           /\ login.handled.status # 470

\* The set-password iframe posts two messages for one response as well.
C16_PasswordTwoMessages ==
  Len(pwform.posted) > 1

(* C17: whenever a login request is in flight (sent, and neither its onload *)
(* nor its onerror handled yet) the email and password inputs are           *)
(* read-only.                                                               *)
C17_ReadOnlyInFlight ==
  login.flights # {} => login.readOnly

\* With a request in flight the user has changed the email that was sent.
C17_EditedInFlight ==
  login.flights # {} /\ ~ValidEmail(login.email)

----------------------------------------------------------------------------
(* The SetPassword page (src/js/src/auth/SetPassword.js): on_message, the   *)
(* listener of the window's message events. Anybody holding a reference to  *)
(* the window can post to it; messages are queued and dispatched in order.  *)
(* The listener is never removed, so it keeps running after the redirect.   *)

\* event.origin: 'null' is the origin of the sandboxed iframe.
Origins == {"null", "http://localhost:3000", "https://evil.example"}

\* event.data: JSON objects with a status, one without, the JSON text null,
\* and a value that is not JSON (undefined, as posted after a failed parse).
MessageData == {"success", "client_error", "invalid", "no-status", "null", "undefined"}

\* JSON.parse(event.data) throws, or data.status throws on null.
Throws(data) == data \in {"null", "undefined"}

\* data.status of a parsed object.
StatusOf(data) == IF data = "no-status" THEN "undefined" ELSE data

\* Variant of the origin test: every origin accepted.
FromIframeAny(origin) == TRUE

\* The negation of the guard `event.origin !== 'null'`.
FromIframe(origin) == origin = "null"

\* window.postMessage by some window: the message event is queued.
PostMessage(origin, data) ==
  /\ page.posts < MaxMessages
  /\ page' = [page EXCEPT
       !.posts = @ + 1,
       !.inbox = Append(@, [origin |-> origin, data |-> data])]
  /\ UNCHANGED <<database, call, pwform, login, nav>>

\* on_message(event) for the first queued message event.
on_message ==
  LET event == Head(page.inbox)
  IN  /\ page.inbox # <<>>
      /\ page' =
           IF ~FromIframe(event.origin) \/ Throws(event.data)
             THEN [page EXCEPT !.inbox = Tail(@)]
           ELSE IF StatusOf(event.data) # "success"
             THEN [page EXCEPT !.inbox = Tail(@), !.error = {event.data}]
           ELSE [page EXCEPT
                   !.inbox = Tail(@),
                   !.path = "/login/",
                   !.navigations = @ + 1,
                   !.message = "Password successfully set, please login."]
      /\ UNCHANGED <<database, call, pwform, login, nav>>

NextPage ==
  \/ \E origin \in Origins, data \in MessageData : PostMessage(origin, data)
  \/ on_message

SpecPage == Init /\ [][NextPage]_gvars

\* What on_message can change.
PageState == [path |-> page.path, message |-> page.message, error |-> page.error,
              navigations |-> page.navigations]

(* C18: the redirect to /login/ with the 'Password successfully set'        *)
(* message happens only in response to a window message whose origin is     *)
(* 'null' and whose parsed status is 'success'; a message from any other    *)
(* origin changes no state and triggers no navigation; a message from       *)
(* origin 'null' that parses to any other status sets the root error to it  *)
(* and does not navigate.                                                   *)
C18_RedirectOnlyOnSuccess ==
  [][on_message =>
       LET event == Head(page.inbox)
           redirected == \/ page'.navigations # page.navigations
                         \/ page'.path # page.path
                         \/ page'.message # page.message
       IN  /\ redirected =>
                /\ event.origin = "null"
                /\ ~Throws(event.data) /\ StatusOf(event.data) = "success"
                /\ page'.path = "/login/"
                /\ page'.message = "Password successfully set, please login."
           /\ event.origin # "null" => PageState' = PageState
           /\ (event.origin = "null" /\ ~Throws(event.data)
                 /\ StatusOf(event.data) # "success") =>
                /\ page'.error = {event.data}
                /\ ~redirected]_gvars

\* Three messages were dispatched: the page has redirected once, on a success
\* message of the iframe, and an error report of the iframe has set the error.
C18_Witness ==
  /\ page.navigations = 1
  /\ page.path = "/login/"
  /\ page.error # NULL
  /\ page.posts = MaxMessages
  /\ page.inbox = <<>>

----------------------------------------------------------------------------
(* The Navbar (src/unnamed/part_003) on a desktop window: the scroll        *)
(* listener set up by the constructor, throttled by requestAnimationFrame,  *)
(* and set_extra. The browser moves the scroll position and then dispatches *)
(* a scroll event; an animation-frame callback runs when the browser next   *)
(* renders. Listener and callback each run to completion.                   *)

\* window.scrollY, in px.
ScrollPositions == {0, 399, 400, 401, 803}

\* Math.round(BACK_TOP_DEFAULT + y_pos / 2): halves round up.
MathRoundHalf(base, y) == (2 * base + y + 1) \div 2

\* set_extra: the show_extra it leaves, from window.scrollY and this.state.
set_extra(scrollY, show_extra) ==
  LET first == IF scrollY > SWITCH_MENU_HEIGHT /\ ~show_extra THEN TRUE ELSE show_extra
  IN  IF scrollY < SWITCH_MENU_HEIGHT /\ first THEN FALSE ELSE first

\* Variants of the callback's position: the one captured when the callback was
\* scheduled, kept in nav.captured.
PositionWhenScheduled == nav.captured

\* The y_pos the callback reads: the closure variable, as the listener last set it.
PositionRead == nav.y_pos

\* The page is loaded at any scroll position; setState in the constructor's
\* set_extra call has no effect (the component is not mounted yet).
InitNavbar ==
  /\ LedgerInit
  /\ UsersInit
  /\ call = NoCall
  /\ pwform = PasswordFormLoaded
  /\ login = LoginFormLoaded
  /\ page = SetPasswordMounted
  /\ \E y \in ScrollPositions :
       nav = [NavbarAtTop EXCEPT !.scrollY = y, !.y_pos = y, !.captured = y]

\* The user scrolls: the position moves, a scroll event is due.
ScrollTo(y) ==
  /\ y # nav.scrollY
  /\ nav' = [nav EXCEPT !.scrollY = y, !.event = TRUE]
  /\ UNCHANGED <<database, call, pwform, login, page>>

\* The scroll listener (lines 47-59).
OnScroll ==
  /\ nav.event
  /\ nav' = [nav EXCEPT
       !.event = FALSE,
       !.scrolled = TRUE,
       !.y_pos = nav.scrollY,
       !.captured = IF nav.busy THEN @ ELSE nav.scrollY,
       !.frames = IF nav.busy THEN @ ELSE @ + 1,
       !.busy = TRUE]
  /\ UNCHANGED <<database, call, pwform, login, page>>

\* The animation-frame callback (lines 50-56).
AnimationFrame ==
  /\ nav.frames > 0
  /\ nav' = [nav EXCEPT
       !.show_extra = set_extra(nav.scrollY, nav.show_extra),
       !.BACK_TOP = MathRoundHalf(BACK_TOP_DEFAULT, PositionRead),
       !.busy = FALSE,
       !.frames = @ - 1]
  /\ UNCHANGED <<database, call, pwform, login, page>>

NextNavbar ==
  \/ \E y \in ScrollPositions : ScrollTo(y)
  \/ OnScroll
  \/ AnimationFrame

SpecNavbar == InitNavbar /\ [][NextNavbar]_bvars

\* round(56 + y/2) px.
Offset(y) == IF y % 2 = 0 THEN 56 + y \div 2 ELSE 56 + (y + 1) \div 2

(* C19: at most one animation-frame callback is pending at any time (and    *)
(* one is pending exactly while busy is set); and no final update is lost:  *)
(* once the scroll events have been dispatched and the last scheduled       *)
(* callback has run, the background offset is round(56 + y/2) px for the    *)
(* last scroll position y, show_extra is true if y > 400 and false if       *)
(* y < 400.                                                                 *)
C19_ThrottleKeepsLast ==
  /\ nav.frames <= 1
  /\ nav.busy <=> nav.frames = 1
  /\ (nav.scrolled /\ ~nav.event /\ nav.frames = 0) =>
        /\ nav.BACK_TOP = Offset(nav.scrollY)
        /\ nav.scrollY > 400 => nav.show_extra
        /\ nav.scrollY < 400 => ~nav.show_extra

\* Scroll events arrived while a callback was pending, the last of them at a
\* position other than the one the callback was scheduled for; the callback
\* has run and the extra menu is shown.
C19_Witness ==
  /\ nav.scrolled /\ ~nav.event /\ nav.frames = 0
  /\ nav.captured # nav.y_pos
  /\ nav.scrollY = 803
  /\ nav.show_extra
  /\ nav.BACK_TOP = 458

====
